---- MODULE Spec2Model ----
(***************************************************************************)
(* Model of the BitTorrent client: the peer wire engine (peer.rs) driven   *)
(* by the handshake, download_piece and download commands (main.rs)        *)
(* against a peer that may send any framed message, stay silent or close.  *)
(* The decode and info commands and the encoding functions are pure, and   *)
(* have specifications of their own: DecodeSpec and EncodeSpec.            *)
(*                                                                         *)
(* Byte strings are run-length encoded: a sequence of runs [v, n], n       *)
(* copies of the byte v, adjacent runs holding different bytes.            *)
(***************************************************************************)
EXTENDS Integers, Sequences, FiniteSets, TLC

\* ------------------------------------------------------------------ bounds
\* Messages the peer may send during one operation of the client (the
\* handshake, bitfield, wait_unchoke, one block of get_piece_data).
MaxMsgs == 2
\* Seconds a blocked read is followed for.
MaxClock == 15

\* --------------------------------------------------------------- constants
BLOCK_SIZE == 16384
UNCHOKE_READ_TIMEOUT == 10
HANDSHAKE_BYTE_BUFFER_SIZE == 68
HANDSHAKE_PEER_ID_BYTE_INDEX_START == 48

\* ------------------------------------------------------------ byte strings
Run(v, n) == [v |-> v, n |-> n]

Rep(v, n) == IF n = 0 THEN <<>> ELSE <<Run(v, n)>>

\* Concatenation, merging the runs that meet when they hold the same byte.
Cat(a, b) ==
    IF a = <<>> THEN b
    ELSE IF b = <<>> THEN a
    ELSE IF a[Len(a)].v = b[1].v
         THEN SubSeq(a, 1, Len(a) - 1)
              \o <<Run(b[1].v, a[Len(a)].n + b[1].n)>>
              \o Tail(b)
         ELSE a \o b

RECURSIVE BytesOf(_)
BytesOf(s) == IF s = <<>> THEN <<>> ELSE Cat(Rep(Head(s), 1), BytesOf(Tail(s)))

RECURSIVE BytesLen(_)
BytesLen(r) == IF r = <<>> THEN 0 ELSE Head(r).n + BytesLen(Tail(r))

\* The first k bytes of r (all of r when it is shorter).
RECURSIVE Take(_, _)
Take(r, k) ==
    IF k = 0 \/ r = <<>> THEN <<>>
    ELSE IF Head(r).n <= k
         THEN <<Head(r)>> \o Take(Tail(r), k - Head(r).n)
         ELSE <<Run(Head(r).v, k)>>

\* r without its first k bytes.
RECURSIVE Drop(_, _)
Drop(r, k) ==
    IF k = 0 \/ r = <<>> THEN r
    ELSE IF Head(r).n <= k
         THEN Drop(Tail(r), k - Head(r).n)
         ELSE <<Run(Head(r).v, Head(r).n - k)>> \o Tail(r)

\* buf[from..to] of Rust: bytes from (0-based) up to, not including, to.
Slice(r, from, to) == Take(Drop(r, from), to - from)

\* buf[i], 0-based; defined for i < BytesLen(r).
ByteAt(r, i) == Drop(r, i)[1].v

\* u32::to_be_bytes
to_be_bytes(x) ==
    BytesOf(<< (x \div 16777216) % 256, (x \div 65536) % 256,
               (x \div 256) % 256, x % 256 >>)

\* u32::from_be_bytes of a 4-byte string
from_be_bytes(r) ==
    ByteAt(r, 0) * 16777216 + ByteAt(r, 1) * 65536 + ByteAt(r, 2) * 256 + ByteAt(r, 3)

\* ------------------------------------------------------------------ SHA-1
\* The digest is abstracted to a two-part running checksum of the bytes
\* (sum, and sum of the running sums, both modulo a prime), laid out in the
\* first 2 of the 20 digest bytes: deterministic, dependent on every byte and
\* on its position, not collision-free.
SumMod == 251

\* n(n+1)/2 modulo SumMod, computed without leaving 32 bits.
Tri(n) == (((n % (2 * SumMod)) * ((n + 1) % (2 * SumMod))) \div 2) % SumMod

\* <<sum of the bytes, sum of the running sums, byte count>> of runs lo..hi
\* of r, all modulo SumMod; the two halves of a range are summed apart.
RECURSIVE SumRuns(_, _, _)
SumRuns(r, lo, hi) ==
    IF lo > hi THEN <<0, 0, 0>>
    ELSE IF lo = hi
    THEN LET v == r[lo].v
             n == r[lo].n
         IN << ((n % SumMod) * v) % SumMod, (v * Tri(n)) % SumMod, n % SumMod >>
    ELSE LET mid == (lo + hi) \div 2
             l == SumRuns(r, lo, mid)
             h == SumRuns(r, mid + 1, hi)
         IN << (l[1] + h[1]) % SumMod,
               (l[2] + h[3] * l[1] + h[2]) % SumMod,
               (l[3] + h[3]) % SumMod >>

Sha1(r) ==
    LET s == SumRuns(r, 1, Len(r))
    IN Cat(BytesOf(<< (1 + s[1]) % SumMod, (s[3] + s[2]) % SumMod >>), Rep(0, 18))

\* --------------------------------------------------------------- metainfo
\* ASCII decimal digits of n, as format!/itoa writes them.
RECURSIVE Digits(_)
Digits(n) == IF n < 10 THEN <<48 + n>> ELSE Digits(n \div 10) \o <<48 + (n % 10)>>

\* Hashes::serialize: the 20-byte records concatenated into one byte string.
RECURSIVE concat(_)
concat(hashes) == IF hashes = <<>> THEN <<>> ELSE Cat(Head(hashes), concat(Tail(hashes)))

\* bencode byte string <len>:<bytes> and integer i<n>e
BencodeBytes(r) == Cat(BytesOf(Digits(BytesLen(r)) \o <<58>>), r)
BencodeInt(n) == BytesOf(<<105>> \o Digits(n) \o <<101>>)

\* to_bytes(&info): the dictionary of the four fields of Info, by key:
\* d 6:length i..e 4:name ..:.. 12:piece length i..e 6:pieces ..:.. e
to_bytes(info) ==
    Cat(BytesOf(<<100>>),
    Cat(BencodeBytes(BytesOf(<<108, 101, 110, 103, 116, 104>>)),
    Cat(BencodeInt(info.length),
    Cat(BencodeBytes(BytesOf(<<110, 97, 109, 101>>)),
    Cat(BencodeBytes(info.name),
    Cat(BencodeBytes(BytesOf(<<112, 105, 101, 99, 101, 32, 108, 101, 110, 103, 116, 104>>)),
    Cat(BencodeInt(info.piece_length),
    Cat(BencodeBytes(BytesOf(<<112, 105, 101, 99, 101, 115>>)),
    Cat(BencodeBytes(concat(info.pieces)),
        BytesOf(<<101>>))))))))))

info_hash_bytes(info) == Sha1(to_bytes(info))

\* The file a torrent describes: every byte of piece i is i + 1.
FileByte(i) == i + 1

\* Number of pieces and byte length of piece i of a file of `len` bytes cut
\* into pieces of `pl` bytes (how the torrent's author cuts the file).
FilePieceCount(len, pl) == (len + pl - 1) \div pl
FilePieceLen(len, pl, i) ==
    IF i = FilePieceCount(len, pl) - 1 THEN len - pl * i ELSE pl

\* The Torrent a well-formed file of that geometry deserializes to.
TorrentOf(len, pl) ==
    [info |-> [length |-> len,
               name |-> BytesOf(<<97>>),
               piece_length |-> pl,
               pieces |-> [i \in 1..FilePieceCount(len, pl) |->
                              Sha1(Rep(FileByte(i - 1), FilePieceLen(len, pl, i - 1)))]]]

\* The torrents the commands are run on: a length that is an exact
\* multiple of the piece length, and pieces of two blocks, the last block of
\* the last piece a short one.
Torrents == { TorrentOf(32768, 16384), TorrentOf(52768, 32768) }

Commands == {"handshake", "download_piece", "download"}

\* ------------------------------------------------------------- wire format
MessageType ==
    [Choke |-> 0, Unchoke |-> 1, Interested |-> 2, NotInterested |-> 3, Have |-> 4,
     Bitfield |-> 5, Request |-> 6, Piece |-> 7, Cancel |-> 8]

\* MessageType::from_id: the variant of a wire id, "None" when unrecognized.
from_id(b) ==
    IF \E k \in DOMAIN MessageType : MessageType[k] = b
    THEN CHOOSE k \in DOMAIN MessageType : MessageType[k] = b
    ELSE "None"

PROTOCOL == <<66, 105, 116, 84, 111, 114, 114, 101, 110, 116, 32,
              112, 114, 111, 116, 111, 99, 111, 108>>
PEER_ID == <<48, 48, 49, 49, 50, 50, 51, 51, 52, 52, 53, 53, 54, 54, 55, 55, 56, 56, 57, 57>>

\* The last two fields pushed in the other order: peer id, then info hash.
as_bytes_peer_id_first(info_hash) ==
    Cat(BytesOf(<<19>>),
    Cat(BytesOf(PROTOCOL),
    Cat(Rep(0, 8),
    Cat(BytesOf(PEER_ID),
        info_hash))))

\* Handshake::new(info_hash).as_bytes()
as_bytes(info_hash) ==
    Cat(BytesOf(<<19>>),
    Cat(BytesOf(PROTOCOL),
    Cat(Rep(0, 8),
    Cat(info_hash,
        BytesOf(PEER_ID)))))

\* Stream::interested: the 5-byte buffer it writes.
InterestedBuf == Cat(Rep(0, 3), BytesOf(<<1, MessageType.Interested>>))

\* The last two fields copied in the other order: length, then offset.
RequestBufLengthFirst(p, begin, size) ==
    Cat(to_be_bytes(13),
    Cat(BytesOf(<<MessageType.Request>>),
    Cat(to_be_bytes(p),
    Cat(to_be_bytes(size),
        to_be_bytes(begin)))))

\* Stream::send_request_piece: the 17-byte buffer it writes.
RequestBuf(p, begin, size) ==
    Cat(to_be_bytes(13),
    Cat(BytesOf(<<MessageType.Request>>),
    Cat(to_be_bytes(p),
    Cat(to_be_bytes(begin),
        to_be_bytes(size)))))

\* ------------------------------------------------------------------ state
VARIABLES
    command,          \* the subcommand run
    torrent,          \* the deserialized Torrent
    piece_arg,        \* download_piece's piece argument
    peers,            \* number of addresses in the tracker's peer list
    value,            \* the decode command's argument, as character codes
    torrent_file,     \* the torrent file the info command reads
    hash_bytes,       \* the 20 bytes torrent.info.info_hash_bytes() returned
    decoded,          \* what the decode and info commands print, and the
                      \* string info_hash_urlencoded returns
    pc,               \* position of main
    result,           \* "running", "ok", "err" (main returned Err) or "panic"
    error,            \* what the run failed with
    piece,            \* the piece being fetched
    inbox,            \* bytes the peer sent that no read has consumed yet
    frames,           \* what the peer sent in units (its handshake, each
                      \* framed message): size, and bytes of it still unread
    silent,           \* the peer has stopped sending, the connection left open
    peerSent,         \* kinds of the messages the peer sent since the client
                      \* began its current operation on the connection
    written,          \* the buffers written to this connection, in order
    events,           \* what has happened on this connection, in order: the
                      \* steps the client completed and the peer's first unchoke
    handshake_buf,    \* the 68 bytes Stream::handshake returned
    length,           \* the value get_message_length returned
    data,             \* get_piece_data's buffer
    block_index,
    block_size,
    remaining_bytes,
    accepted,         \* per block of this piece: the request and the response appended
    file_data,        \* the bytes to write: download's file_data, download_piece's piece_data
    placed,           \* the pieces put in file_data: index and bytes
    output,           \* the output file: whether written, and its bytes
    timer,            \* seconds the current read has been blocked
    elapsed           \* seconds blocked since wait_unchoke was entered

inputs == <<command, torrent, piece_arg, peers, value, torrent_file, hash_bytes>>
status == <<result, error>>
conn == <<inbox, silent, peerSent, frames>>
clocks == <<timer, elapsed>>
pieceVars == <<data, block_index, block_size, remaining_bytes, accepted>>
fileVars == <<file_data, placed, output>>
vars == <<command, torrent, piece_arg, peers, value, torrent_file, hash_bytes, decoded, pc, result, error, piece, inbox, frames,
          silent, peerSent, written, events, handshake_buf, length, data,
          block_index, block_size, remaining_bytes, accepted, file_data, placed,
          output, timer, elapsed>>

\* main at its start: nothing printed, connected, fetched or written yet.
Started ==
    /\ decoded = <<>>
    /\ result = "running"
    /\ error = "none"
    /\ piece = 0
    /\ inbox = <<>>
    /\ frames = <<>>
    /\ silent = FALSE
    /\ peerSent = <<>>
    /\ written = <<>>
    /\ events = <<>>
    /\ handshake_buf = <<>>
    /\ length = 0
    /\ data = <<>>
    /\ block_index = 0
    /\ block_size = 0
    /\ remaining_bytes = 0
    /\ accepted = <<>>
    /\ file_data = <<>>
    /\ placed = <<>>
    /\ output = [written |-> FALSE, bytes |-> <<>>]
    /\ timer = 0
    /\ elapsed = 0

Init ==
    /\ command \in Commands
    /\ torrent \in Torrents
    /\ piece_arg \in IF command = "download_piece" THEN 0..2 ELSE {0}
    /\ peers \in {0, 2}
    /\ value = <<>>
    /\ torrent_file = <<>>
    /\ hash_bytes = info_hash_bytes(torrent.info)
    /\ pc = "discover_peers"
    /\ Started

Running == result = "running"

\* main returns Err(kind): the run ends, pc stays where it failed.
Fail(kind) == result' = "err" /\ error' = kind /\ pc' = pc

\* A panic aborts the run where it is.
Panic(msg) == result' = "panic" /\ error' = msg /\ pc' = pc

\* The positions blocked in read_exact, and the bytes the read asks for.
ReadStates ==
    {"handshake_read", "bitfield_len", "bitfield_body", "unchoke_len",
     "unchoke_loop", "piece_len", "piece_body"}

Need ==
    CASE pc = "handshake_read" -> HANDSHAKE_BYTE_BUFFER_SIZE
      [] pc \in {"bitfield_len", "unchoke_len", "piece_len"} -> 4
      [] pc \in {"bitfield_body", "unchoke_loop", "piece_body"} -> length
      [] OTHER -> 0

CanRead == BytesLen(inbox) >= Need

\* The units still unread after n more bytes were read.
RECURSIVE AdvanceFrames(_, _)
AdvanceFrames(fs, n) ==
    IF n = 0 \/ fs = <<>> THEN fs
    ELSE IF Head(fs).left <= n
         THEN AdvanceFrames(Tail(fs), n - Head(fs).left)
         ELSE <<[Head(fs) EXCEPT !.left = @ - n]>> \o Tail(fs)

\* A unit of `bytes` the peer sends, none of it read yet.
Frame(bytes) == [size |-> BytesLen(bytes), left |-> BytesLen(bytes)]

\* A read that completes takes its bytes off the connection.
Consume ==
    /\ inbox' = Drop(inbox, Need)
    /\ frames' = AdvanceFrames(frames, Need)
    /\ UNCHANGED silent

\* ------------------------------------------------------------------- main
\* request.discover_peers(&torrent) succeeds; the handshake command panics
\* when its peer is not in the list (here: the list is empty).
DiscoverPeers ==
    /\ Running /\ pc = "discover_peers"
    /\ IF command = "handshake" /\ peers = 0
       THEN Panic("does not contain peer address") /\ UNCHANGED piece
       ELSE /\ pc' = IF command = "download" THEN "for_piece" ELSE "connect"
            /\ piece' = IF command = "download_piece" THEN piece_arg ELSE 0
            /\ UNCHANGED status
    /\ UNCHANGED <<inputs, decoded, events, conn, written, handshake_buf, length, pieceVars,
                   fileVars, clocks>>

\* The tracker request or the decoding of its response fails.
DiscoverPeersFail ==
    /\ Running /\ pc = "discover_peers"
    /\ Fail("discover peers")
    /\ UNCHANGED <<inputs, decoded, events, piece, conn, written, handshake_buf, length, pieceVars,
                   fileVars, clocks>>

\* for piece in 0..torrent.info.pieces.0.len()
ForPiece ==
    /\ Running /\ pc = "for_piece"
    /\ pc' = IF piece < Len(torrent.info.pieces) THEN "connect" ELSE "write"
    /\ UNCHANGED <<inputs, decoded, events, status, piece, conn, written, handshake_buf, length,
                   pieceVars, fileVars, clocks>>

\* Stream::connect(&peers.addresses[0]): a new connection to the first peer
\* of the list; indexing an empty list panics.
Connect ==
    /\ Running /\ pc = "connect"
    /\ IF peers = 0 /\ command # "handshake"
       THEN /\ Panic("index out of bounds")
            /\ UNCHANGED <<conn, written, events, clocks>>
       ELSE /\ pc' = "handshake"
            /\ inbox' = <<>> /\ silent' = FALSE
            /\ frames' = <<>>
            /\ peerSent' = <<>>
            /\ written' = <<>>
            /\ events' = <<>>
            /\ timer' = 0 /\ elapsed' = 0
            /\ UNCHANGED status
    /\ UNCHANGED <<inputs, decoded, piece, handshake_buf, length, pieceVars, fileVars>>

ConnectFail ==
    /\ Running /\ pc = "connect"
    /\ peers > 0 \/ command = "handshake"
    /\ Fail("NetworkError")
    /\ UNCHANGED <<inputs, decoded, events, piece, conn, written, handshake_buf, length, pieceVars,
                   fileVars, clocks>>

\* ------------------------------------------------------------------ Stream
\* An Err out of a Stream call: `?` returns it from main, except in the
\* handshake command, which panics on the Err of Stream::handshake.
HandshakeErr(kind) ==
    IF command = "handshake" /\ pc \in {"handshake", "handshake_read"}
    THEN Panic("Could not complete handshake")
    ELSE Fail(kind)

\* write_all fails (the connection was reset).
WriteAllFail ==
    /\ Running
    /\ \/ pc \in {"handshake", "interested"}
       \/ pc = "piece_loop" /\ remaining_bytes > 0
    /\ HandshakeErr("NetworkError")
    /\ UNCHANGED <<inputs, decoded, events, piece, conn, written, handshake_buf, length, pieceVars,
                   fileVars, clocks>>

\* read_exact fails with UnexpectedEof: the peer closes the connection
\* while the read waits for bytes.
ReadEof ==
    /\ Running /\ pc \in ReadStates
    /\ ~CanRead /\ ~silent
    /\ HandshakeErr("NetworkError")
    /\ UNCHANGED <<inputs, decoded, events, piece, conn, written, handshake_buf, length, pieceVars,
                   fileVars, clocks>>

\* Stream::handshake, first half: write_all(&handshake.as_bytes())
HandshakeWrite ==
    /\ Running /\ pc = "handshake"
    /\ written' = Append(written, as_bytes(info_hash_bytes(torrent.info)))
    /\ pc' = "handshake_read"
    /\ UNCHANGED <<inputs, decoded, events, status, piece, conn, handshake_buf, length, pieceVars,
                   fileVars, clocks>>

\* Stream::handshake, second half: read_exact of 68 bytes, returned as they
\* are. The handshake command then prints the peer id and ends.
HandshakeRead ==
    /\ Running /\ pc = "handshake_read"
    /\ CanRead
    /\ handshake_buf' = Take(inbox, HANDSHAKE_BYTE_BUFFER_SIZE)
    /\ events' = Append(events, "handshake")
    /\ Consume
    /\ peerSent' = IF command = "handshake" THEN peerSent ELSE <<>>
    /\ timer' = 0
    /\ IF command = "handshake"
       THEN result' = "ok" /\ pc' = pc /\ UNCHANGED error
       ELSE pc' = "bitfield_len" /\ UNCHANGED status
    /\ UNCHANGED <<inputs, decoded, piece, written, length, pieceVars, fileVars, elapsed>>

\* Stream::get_message_length: read_exact of 4 bytes, big-endian u32. Called
\* by bitfield, wait_unchoke and read_request_piece.
GetMessageLength ==
    /\ Running /\ pc \in {"bitfield_len", "unchoke_len", "piece_len"}
    /\ CanRead
    /\ length' = from_be_bytes(Take(inbox, 4))
    /\ Consume /\ UNCHANGED peerSent
    /\ timer' = 0
    /\ pc' = CASE pc = "bitfield_len" -> "bitfield_body"
               [] pc = "unchoke_len" -> "unchoke_loop"
               [] pc = "piece_len" -> "piece_body"
    /\ UNCHANGED <<inputs, decoded, events, status, piece, written, handshake_buf, pieceVars,
                   fileVars, elapsed>>

\* Stream::bitfield after its length: read_exact of `length` bytes, then
\* buf[0] (a panic when the buffer is empty) must be the bitfield id.
Bitfield ==
    /\ Running /\ pc = "bitfield_body"
    /\ CanRead
    /\ Consume /\ UNCHANGED peerSent
    /\ timer' = 0
    /\ LET buf == Take(inbox, length)
       IN IF length = 0
          THEN Panic("index out of bounds") /\ UNCHANGED events
          ELSE IF from_id(ByteAt(buf, 0)) = "Bitfield"
               THEN /\ pc' = "interested" /\ UNCHANGED status
                    /\ events' = Append(events, "bitfield")
               ELSE Fail("Expected bitfield") /\ UNCHANGED events
    /\ UNCHANGED <<inputs, decoded, piece, written, handshake_buf, length, pieceVars,
                   fileVars, elapsed>>

\* Stream::interested
Interested ==
    /\ Running /\ pc = "interested"
    /\ written' = Append(written, InterestedBuf)
    /\ events' = Append(events, "interested")
    /\ pc' = "unchoke_len"
    /\ peerSent' = <<>>
    /\ UNCHANGED <<inputs, decoded, status, piece, inbox, frames, silent, handshake_buf, length, pieceVars,
                   fileVars, clocks>>

\* One iteration of wait_unchoke's loop: read_with_timeout fills the buffer
\* of `length` bytes allocated before the loop, and the loop ends when
\* buffer[0] (a panic when the buffer is empty) is the unchoke id.
WaitUnchoke ==
    /\ Running /\ pc = "unchoke_loop"
    /\ CanRead
    /\ Consume /\ UNCHANGED peerSent
    /\ timer' = 0
    /\ LET unchoke_message_buffer == Take(inbox, length)
       IN IF length = 0
          THEN Panic("index out of bounds") /\ UNCHANGED elapsed
          ELSE IF ByteAt(unchoke_message_buffer, 0) = MessageType.Unchoke
          THEN pc' = "get_piece_data" /\ elapsed' = 0 /\ UNCHANGED status
          ELSE pc' = "unchoke_loop" /\ UNCHANGED <<status, elapsed>>
    /\ UNCHANGED <<inputs, decoded, events, piece, written, handshake_buf, length, pieceVars, fileVars>>

\* read_with_timeout: the 10 seconds of one read pass before its bytes come.
WaitUnchokeTimeout ==
    /\ Running /\ pc = "unchoke_loop"
    /\ ~CanRead
    /\ timer >= UNCHOKE_READ_TIMEOUT
    /\ Fail("Timeout")
    /\ UNCHANGED <<inputs, decoded, events, piece, conn, written, handshake_buf, length, pieceVars,
                   fileVars, clocks>>

\* Stream::get_piece_data before its loop: the byte count to request.
\* (The torrents of the model have at least one piece and lengths below
\* 2^31, so `len() as u32 - 1` and the `as u32` casts change nothing.)
PieceBytes(p, info) ==
    IF p = Len(info.pieces) - 1
    THEN info.length % info.piece_length
    ELSE info.piece_length

GetPieceData ==
    /\ Running /\ pc = "get_piece_data"
    /\ data' = <<>>
    /\ block_index' = 0
    /\ block_size' = BLOCK_SIZE
    /\ remaining_bytes' = PieceBytes(piece, torrent.info)
    /\ accepted' = <<>>
    /\ pc' = "piece_loop"
    /\ UNCHANGED <<inputs, decoded, events, status, piece, conn, written, handshake_buf, length,
                   fileVars, clocks>>

\* if remaining_bytes < block_size { block_size = remaining_bytes; }
ShrinkBlock(remaining, size) == IF remaining < size THEN remaining ELSE size

\* The head of the loop: while remaining_bytes > 0, shrink the last block and
\* send_request_piece; otherwise return Ok(data) to main.
GetPieceDataLoop ==
    /\ Running /\ pc = "piece_loop"
    /\ IF remaining_bytes > 0
       THEN /\ block_size' = ShrinkBlock(remaining_bytes, block_size)
            /\ written' = Append(written, RequestBuf(piece, block_index, block_size'))
            /\ events' = Append(events, "request")
            /\ pc' = "piece_len"
            /\ peerSent' = <<>>
       ELSE /\ pc' = "verify"
            /\ UNCHANGED <<block_size, written, events, peerSent>>
    /\ UNCHANGED <<inputs, decoded, status, piece, inbox, frames, silent, handshake_buf, length, data,
                   block_index, remaining_bytes, accepted, fileVars, clocks>>

\* The offset left where it was: the same block is asked for again.
AdvanceBlockNever(index, size) == index

\* block_index += block_size;
AdvanceBlock(index, size) == index + size

\* read_request_piece after its length, and the rest of the loop body:
\* read_exact of `length` bytes; request_buf[0] must be the piece id, or the
\* process panics (also when the buffer is empty); the slices [1..5] and
\* [5..9] panic on a shorter buffer; request_buf[9..] is appended to data.
ReadRequestPiece ==
    /\ Running /\ pc = "piece_body"
    /\ CanRead
    /\ Consume /\ UNCHANGED peerSent
    /\ timer' = 0
    /\ LET request_buf == Take(inbox, length)
       IN IF length = 0
          THEN Panic("index out of bounds") /\ UNCHANGED pieceVars
          ELSE IF ByteAt(request_buf, 0) # MessageType.Piece
          THEN Panic("expected request piece") /\ UNCHANGED pieceVars
          ELSE IF length < 9
          THEN Panic("range end index out of range") /\ UNCHANGED pieceVars
          ELSE /\ data' = Cat(data, Drop(request_buf, 9))
               /\ remaining_bytes' = remaining_bytes - block_size
               /\ block_index' = AdvanceBlock(block_index, block_size)
               /\ accepted' = Append(accepted,
                      [piece |-> piece, begin |-> block_index, size |-> block_size,
                       piece_data_index |-> from_be_bytes(Slice(request_buf, 1, 5)),
                       piece_offset_begin |-> from_be_bytes(Slice(request_buf, 5, 9)),
                       data_block |-> Drop(request_buf, 9)])
               /\ pc' = "piece_loop"
               /\ UNCHANGED <<status, block_size>>
    /\ UNCHANGED <<inputs, decoded, events, piece, written, handshake_buf, length, fileVars, elapsed>>

\* ------------------------------------------------------- verify and write
\* The comparison left out: every piece passes.
HashesMatchUnchecked(piece_hash, torrent_hash) == TRUE

\* &piece_hash != torrent_hash
HashesMatch(piece_hash, torrent_hash) == piece_hash = torrent_hash

\* The piece put in front of the bytes already there.
ExtendInFront(file, piece_data) == Cat(piece_data, file)

\* file_data.extend(piece_data);
Extend(file, piece_data) == Cat(file, piece_data)

\* After get_piece_data: the SHA-1 of the piece against pieces.0[piece] (a
\* panic when the index is out of range, and when the hashes differ); the
\* download command appends the piece to file_data and goes to the next one.
VerifyPiece ==
    /\ Running /\ pc = "verify"
    /\ IF piece >= Len(torrent.info.pieces)
       THEN /\ Panic("index out of bounds")
            /\ UNCHANGED <<piece, file_data, placed, pieceVars, length>>
       ELSE IF ~HashesMatch(Sha1(data), torrent.info.pieces[piece + 1])
       THEN /\ Panic("Hashes do NOT match")
            /\ UNCHANGED <<piece, file_data, placed, pieceVars, length>>
       ELSE /\ file_data' = IF command = "download" THEN Extend(file_data, data) ELSE data
            /\ placed' = Append(placed, [index |-> piece, bytes |-> data])
            /\ piece' = IF command = "download" THEN piece + 1 ELSE piece
            /\ pc' = IF command = "download" THEN "for_piece" ELSE "write"
            \* the end of the loop body drops the stream and the piece's locals
            /\ IF command = "download"
               THEN /\ data' = <<>> /\ block_index' = 0 /\ block_size' = 0
                    /\ remaining_bytes' = 0 /\ accepted' = <<>> /\ length' = 0
               ELSE UNCHANGED <<pieceVars, length>>
            /\ UNCHANGED status
    /\ UNCHANGED <<inputs, decoded, events, conn, written, handshake_buf, output, clocks>>

\* fs::write(output, ..): the whole buffer, then Ok(())
WriteOutput ==
    /\ Running /\ pc = "write"
    /\ output' = [written |-> TRUE, bytes |-> file_data]
    /\ result' = "ok"
    /\ UNCHANGED <<inputs, decoded, events, pc, error, piece, conn, written, handshake_buf, length,
                   pieceVars, file_data, placed, clocks>>

WriteOutputFail ==
    /\ Running /\ pc = "write"
    /\ Fail("IoError")
    /\ UNCHANGED <<inputs, decoded, events, piece, conn, written, handshake_buf, length, pieceVars,
                   fileVars, clocks>>

\* ------------------------------------------------------------------- peer
\* The peer's steps are taken while the client waits in a read for bytes
\* that have not come: bytes sent before the read that takes them are seen
\* by that read just as if they came while it waited.
\* A framed message: 4-byte big-endian length of id + payload, id, payload.
Message(id, payload) ==
    Cat(to_be_bytes(1 + BytesLen(payload)), Cat(BytesOf(<<id>>), payload))

\* The payload of a piece message: index, begin, block data.
PiecePayload(index, begin, bytes) ==
    Cat(to_be_bytes(index), Cat(to_be_bytes(begin), bytes))

\* The peer's 68-byte handshake: with the client's info hash, or another.
HandshakeKinds == {"hs_ok", "hs_other_hash"}

OtherHash(h) == Cat(Rep((h[1].v + 1) % 256, 1), Drop(h, 1))

PeerHandshakeBytes(kind) ==
    LET h == info_hash_bytes(torrent.info)
    IN Cat(BytesOf(<<19>>),
       Cat(BytesOf(PROTOCOL),
       Cat(Rep(0, 8),
       Cat(IF kind = "hs_ok" THEN h ELSE OtherHash(h),
           Rep(45, 20)))))

\* Messages the peer may send at any time, and those it sends in answer to
\* the outstanding request (piece, block_index, block_size).
AnyTimeKinds == {"keepalive", "choke", "unchoke", "have", "bitfield", "unknown"}

AnswerKinds ==
    {"piece", "piece_bad_data", "piece_wrong_index", "piece_wrong_begin",
     "piece_short", "piece_long", "piece_truncated"}

PeerMessageBytes(kind) ==
    CASE kind = "keepalive" -> to_be_bytes(0)
      [] kind = "choke" -> Message(0, <<>>)
      [] kind = "unchoke" -> Message(1, <<>>)
      [] kind = "have" -> Message(4, to_be_bytes(1))
      [] kind = "bitfield" -> Message(5, Rep(192, 1))
      [] kind = "unknown" -> Message(20, <<>>)
      [] kind = "piece" ->
            Message(7, PiecePayload(piece, block_index, Rep(FileByte(piece), block_size)))
      [] kind = "piece_bad_data" ->
            Message(7, PiecePayload(piece, block_index, Rep(255, block_size)))
      [] kind = "piece_wrong_index" ->
            Message(7, PiecePayload(piece + 1, block_index, Rep(FileByte(piece), block_size)))
      [] kind = "piece_wrong_begin" ->
            Message(7, PiecePayload(piece, block_index + 1, Rep(FileByte(piece), block_size)))
      [] kind = "piece_short" ->
            Message(7, PiecePayload(piece, block_index, Rep(FileByte(piece), block_size - 1)))
      [] kind = "piece_long" ->
            Message(7, PiecePayload(piece, block_index, Rep(FileByte(piece), block_size + 1)))
      [] kind = "piece_truncated" -> Message(7, to_be_bytes(piece))

PeerHandshake(kind) ==
    /\ Running /\ pc = "handshake_read" /\ ~silent
    /\ ~CanRead
    /\ inbox' = Cat(inbox, PeerHandshakeBytes(kind))
    /\ frames' = Append(frames, Frame(PeerHandshakeBytes(kind)))
    /\ peerSent' = Append(peerSent, kind)
    /\ UNCHANGED <<inputs, decoded, events, pc, status, piece, silent, written, handshake_buf,
                   length, pieceVars, fileVars, clocks>>

PeerSend(kind) ==
    /\ Running /\ pc \in ReadStates \ {"handshake_read"} /\ ~silent
    /\ Len(peerSent) < MaxMsgs
    /\ ~CanRead
    /\ kind \in AnswerKinds => pc \in {"piece_len", "piece_body"}
    /\ inbox' = Cat(inbox, PeerMessageBytes(kind))
    /\ frames' = Append(frames, Frame(PeerMessageBytes(kind)))
    /\ peerSent' = Append(peerSent, kind)
    /\ events' = IF kind = "unchoke" /\ \A i \in DOMAIN events : events[i] # "unchoke"
                 THEN Append(events, "unchoke") ELSE events
    /\ UNCHANGED <<inputs, decoded, pc, status, piece, silent, written, handshake_buf,
                   length, pieceVars, fileVars, clocks>>

\* The peer stops sending while a read without deadline waits for bytes,
\* and leaves the connection open.
PeerStall ==
    /\ Running /\ pc \in ReadStates \ {"unchoke_loop"} /\ ~silent
    /\ ~CanRead
    /\ silent' = TRUE
    /\ UNCHANGED <<inputs, decoded, events, pc, status, piece, inbox, frames, peerSent, written,
                   handshake_buf, length, pieceVars, fileVars, clocks>>

\* ------------------------------------------------------------------- time
\* Time passes while a read waits for bytes: ClockStep seconds, or what is
\* left to the deadline of the read. Only read_with_timeout, in
\* wait_unchoke's loop, has a deadline (of 10 seconds); the time a read
\* without deadline has waited changes nothing for it, and is followed once
\* the peer has stopped sending.
Min(a, b) == IF a < b THEN a ELSE b

\* Seconds between two looks at the clock of a blocked read.
ClockStep == UNCHOKE_READ_TIMEOUT \div 2

Passes ==
    IF pc = "unchoke_loop"
    THEN Min(ClockStep, UNCHOKE_READ_TIMEOUT - timer)
    ELSE ClockStep

Tick ==
    /\ Running /\ pc \in ReadStates
    /\ ~CanRead
    /\ timer < MaxClock /\ elapsed < MaxClock
    /\ IF pc = "unchoke_loop" THEN timer < UNCHOKE_READ_TIMEOUT ELSE silent
    /\ timer' = timer + Passes
    /\ elapsed' = IF pc \in {"unchoke_len", "unchoke_loop"}
                  THEN elapsed + Passes ELSE elapsed
    /\ UNCHANGED <<inputs, decoded, events, pc, status, piece, conn, written, handshake_buf, length,
                   pieceVars, fileVars>>

\* ------------------------------------------------------------ specification
Next ==
    \/ DiscoverPeers
    \/ DiscoverPeersFail
    \/ ForPiece
    \/ Connect
    \/ ConnectFail
    \/ WriteAllFail
    \/ ReadEof
    \/ HandshakeWrite
    \/ HandshakeRead
    \/ GetMessageLength
    \/ Bitfield
    \/ Interested
    \/ WaitUnchoke
    \/ WaitUnchokeTimeout
    \/ GetPieceData
    \/ GetPieceDataLoop
    \/ ReadRequestPiece
    \/ VerifyPiece
    \/ WriteOutput
    \/ WriteOutputFail
    \/ \E kind \in HandshakeKinds : PeerHandshake(kind)
    \/ \E kind \in AnyTimeKinds \cup AnswerKinds : PeerSend(kind)
    \/ PeerStall
    \/ Tick

Spec == Init /\ [][Next]_vars

\* ------------------------------------------------------------------ claims
InWaitUnchoke == pc \in {"unchoke_len", "unchoke_loop"}

Kinds(h) == {h[i] : i \in DOMAIN h}

\* Correctly framed messages other than unchoke.
Benign == AnyTimeKinds \ {"unchoke"}

AllBenign(h) == \A i \in DOMAIN h : h[i] \in Benign

BenignThenUnchoke(h) ==
    /\ h # <<>>
    /\ h[Len(h)] = "unchoke"
    /\ \A i \in 1..(Len(h) - 1) : h[i] \in Benign

\* C1: whenever Stream::handshake has returned the 68 bytes of the peer as a
\* success, bytes 28..48 of them equal bytes 28..48 of the handshake the
\* client wrote (the info hash it sent).
C1_HandshakeChecksInfoHash ==
    handshake_buf # <<>> =>
        Slice(handshake_buf, 28, 48) = Slice(written[1], 28, 48)

\* C2: while wait_unchoke is waiting and the peer has sent no unchoke, no
\* more than the maximum wait (the 10 seconds of its timeout) has passed
\* since it began to wait: at that point it has failed with Timeout.
C2_WaitUnchokeBounded ==
    (Running /\ InWaitUnchoke /\ "unchoke" \notin Kinds(peerSent))
        => elapsed <= UNCHOKE_READ_TIMEOUT

\* C3: wait_unchoke does not abort on framed non-unchoke messages, and does
\* not fail when such messages were followed by an unchoke within the wait
\* bound.
C3_WaitUnchokeSkipsBenign ==
    /\ ~(InWaitUnchoke /\ result = "panic" /\ AllBenign(peerSent))
    /\ ~(/\ InWaitUnchoke /\ result \in {"err", "panic"} /\ error # "NetworkError"
         /\ BenignThenUnchoke(peerSent)
         /\ elapsed <= UNCHOKE_READ_TIMEOUT)

\* C4: when wait_unchoke has returned success, the peer has sent an unchoke
\* message since the client began to wait.
C4_SuccessOnlyOnUnchoke ==
    pc = "get_piece_data" => "unchoke" \in Kinds(peerSent)

\* C5: Stream::bitfield succeeds exactly on a first message that is a
\* bitfield, and on every other first message it ends with an error value,
\* never with a panic.
C5_BitfieldErrorIsValue ==
    /\ pc = "interested" => peerSent = <<"bitfield">>
    /\ (pc = "bitfield_body" /\ ~Running) => result = "err"

\* C6: read_request_piece never panics on a message whose id is not piece:
\* it ends with an error value.
C6_UnexpectedIdIsError ==
    (pc = "piece_body" /\ ~Running /\ error = "expected request piece")
        => result = "err"

\* C7: every block appended to the piece buffer came in a response whose
\* piece index and block offset are those of the request it answers.
C7_AppendedBlockMatchesRequest ==
    \A i \in DOMAIN accepted :
        /\ accepted[i].piece_data_index = accepted[i].piece
        /\ accepted[i].piece_offset_begin = accepted[i].begin

\* C8: in the data phase a message of length prefix 0 is discarded: the
\* run neither panics nor fails on it.
C8_KeepAliveDiscardedInDataPhase ==
    (pc = "piece_body" /\ length = 0) => Running

\* The pieces put in the output buffer, concatenated in order.
RECURSIVE PlacedBytes(_)
PlacedBytes(ps) ==
    IF ps = <<>> THEN <<>> ELSE Cat(Head(ps).bytes, PlacedBytes(Tail(ps)))

\* C9: the output file is written only with pieces whose SHA-1 equals the
\* recorded hash of their index, and a run that met a piece whose hash
\* differs has written nothing.
C9_OutputOnlyVerifiedPieces ==
    /\ output.written =>
          /\ output.bytes = PlacedBytes(placed)
          /\ \A i \in DOMAIN placed :
                /\ placed[i].index < Len(torrent.info.pieces)
                /\ Sha1(placed[i].bytes) = torrent.info.pieces[placed[i].index + 1]
    /\ (pc = "verify" /\ piece < Len(torrent.info.pieces)
           /\ Sha1(data) # torrent.info.pieces[piece + 1])
          => ~output.written /\ (~Running => result = "panic")

\* C9 witness: the download command has written a file of two pieces.
C9_Witness ==
    output.written /\ command = "download" /\ Len(placed) = 2 /\ output.bytes # <<>>

\* C10: the bytes get_piece_data asks for in all (those already requested
\* block by block and those remaining) are piece_length for every piece but
\* the last, and total_length - piece_length * (piece_count - 1) for the last.
C10_PieceLength ==
    (pc \in {"piece_loop", "piece_len", "piece_body", "verify"}
        /\ piece < Len(torrent.info.pieces))
    => block_index + remaining_bytes =
          IF piece = Len(torrent.info.pieces) - 1
          THEN torrent.info.length
                  - torrent.info.piece_length * (Len(torrent.info.pieces) - 1)
          ELSE torrent.info.piece_length

\* The positions of Stream::get_piece_data after its locals are set.
InGetPieceData == pc \in {"piece_loop", "piece_len", "piece_body", "verify"}

\* The request messages written on the connection so far: everything after
\* the handshake and the interested message.
Requests == SubSeq(written, 3, Len(written))

\* The fields of a 17-byte request message.
RequestIndex(req) == from_be_bytes(Slice(req, 5, 9))
RequestBegin(req) == from_be_bytes(Slice(req, 9, 13))
RequestLength(req) == from_be_bytes(Slice(req, 13, 17))

CeilDiv(a, b) == (a + b - 1) \div b

\* C11: with L > 0 the length of the piece being fetched (piece_length, or
\* for the last piece what is left of the file), request k of the piece asks
\* for 16384 bytes at offset 16384*(k-1), except that the last of the
\* ceil(L/16384) requests asks for what is left of L; no request asks for 0
\* bytes, no more than ceil(L/16384) requests are sent, and when
\* get_piece_data has returned all of them were sent (so the lengths sum
\* to L).
C11_BlockPartition ==
    (InGetPieceData /\ piece < Len(torrent.info.pieces)) =>
        LET L == FilePieceLen(torrent.info.length, torrent.info.piece_length, piece)
            N == CeilDiv(L, BLOCK_SIZE)
        IN /\ Len(Requests) <= N
           /\ \A k \in DOMAIN Requests :
                 /\ RequestLength(Requests[k]) > 0
                 /\ RequestBegin(Requests[k]) = BLOCK_SIZE * (k - 1)
                 /\ RequestLength(Requests[k]) =
                        IF k < N THEN BLOCK_SIZE ELSE L - BLOCK_SIZE * (N - 1)
           /\ pc = "verify" => Len(Requests) = N

\* C12: within a piece the requests start at offset 0 and their offsets
\* increase strictly, and the requests sent exceed the responses read to
\* their end by at most one: a request is outstanding only while its
\* response is being read, and the next one is sent after that.
C12_OneBlockAtATime ==
    InGetPieceData =>
        /\ Len(Requests) - Len(accepted) \in {0, 1}
        /\ (pc \in {"piece_loop", "verify"} /\ Running) => Len(Requests) = Len(accepted)
        /\ Requests # <<>> => RequestBegin(Requests[1]) = 0
        /\ \A k \in 1..(Len(Requests) - 1) :
              RequestBegin(Requests[k + 1]) > RequestBegin(Requests[k])

\* C12 witness: the second request of a piece is outstanding, the response
\* to the first has been read.
C12_Witness ==
    /\ pc = "piece_len" /\ Running
    /\ Len(Requests) = 2 /\ Len(accepted) = 1
    /\ RequestBegin(Requests[2]) = BLOCK_SIZE

\* C13: in the download command the pieces verified so far are pieces
\* 0, 1, .. in that order, the piece being fetched is the next index (every
\* request on its connection names it), and a file that was written holds
\* every piece of the torrent, concatenated in index order.
C13_PiecesInOrder ==
    command = "download" =>
        /\ \A i \in DOMAIN placed : placed[i].index = i - 1
        /\ piece = Len(placed)
        /\ InGetPieceData =>
              \A k \in DOMAIN Requests : RequestIndex(Requests[k]) = Len(placed)
        /\ output.written =>
              /\ Len(placed) = Len(torrent.info.pieces)
              /\ output.bytes = PlacedBytes(placed)

\* C13 witness: the download command ended in success after piece 0 and
\* then piece 1, of different content, were verified.
C13_Witness ==
    /\ command = "download" /\ result = "ok" /\ output.written
    /\ Len(placed) = 2 /\ placed[1].index = 0 /\ placed[2].index = 1
    /\ placed[1].bytes # placed[2].bytes

\* C14: when a request has been sent on the connection, the events of the
\* connection before the first request hold, in this order, the handshake
\* completed, a bitfield message received, the interested message sent and
\* an unchoke message from the peer.
C14_RequestOnlyAfterUnchoke ==
    (\E m \in DOMAIN events : events[m] = "request") =>
        LET first == CHOOSE m \in DOMAIN events :
                        /\ events[m] = "request"
                        /\ \A n \in 1..(m - 1) : events[n] # "request"
        IN \E i, j, k, l \in 1..(first - 1) :
              /\ i < j /\ j < k /\ k < l
              /\ events[i] = "handshake" /\ events[j] = "bitfield"
              /\ events[k] = "interested" /\ events[l] = "unchoke"

\* C15: a read that waits for bytes has waited no longer than the maximum
\* duration of a read (the 10 seconds of read_with_timeout, the only one the
\* engine has): once that has passed the run has failed with Timeout.
C15_ReadsHaveDeadline ==
    (Running /\ pc \in ReadStates /\ ~CanRead) => timer <= UNCHOKE_READ_TIMEOUT

\* The positions of connecting to a peer and of the handshake with it.
InConnectOrHandshake == pc \in {"connect", "handshake", "handshake_read"}

\* C24: the download commands do not end with the NetworkError of
\* connecting to, or of the handshake with, one peer when the tracker's list
\* holds another peer: they go on to that one.
C24_PeerRotation ==
    (command \in {"download_piece", "download"} /\ InConnectOrHandshake /\ peers > 1)
        => ~(result = "err" /\ error = "NetworkError")

\* The next unread byte of the connection is the first byte of a unit the
\* peer sent (or of the next one, when all it sent was read).
Aligned == frames = <<>> \/ frames[1].left = frames[1].size

\* The positions between two message-reading operations: bitfield has
\* returned Ok, wait_unchoke has returned Ok, read_request_piece has
\* returned Ok or is about to read a length prefix.
BetweenMessages ==
    pc \in {"interested", "unchoke_len", "get_piece_data", "piece_loop", "piece_len",
            "verify"}

\* C25: after the message-reading operations completed so far (bitfield,
\* wait_unchoke, read_request_piece), each of which consumed 4 + length
\* bytes per message, the next unread byte of the connection is the first
\* byte of a length prefix.
C25_FramingInvariant == BetweenMessages => Aligned

\* C26: when get_piece_data has returned Ok after reading responses, its
\* buffer has the byte length of the piece, and the data of each response
\* is in it at the offset and of the length of the request it answered,
\* whatever data lengths the peer sent.
C26_AssembledPieceSize ==
    (pc = "verify" /\ accepted # <<>> /\ piece < Len(torrent.info.pieces)) =>
        /\ BytesLen(data) =
              FilePieceLen(torrent.info.length, torrent.info.piece_length, piece)
        /\ \A i \in DOMAIN accepted :
              /\ BytesLen(accepted[i].data_block) = accepted[i].size
              /\ Slice(data, accepted[i].begin, accepted[i].begin + accepted[i].size)
                     = accepted[i].data_block

\* ------------------------------------------------------- the info command
\* Bound: the longest `pieces` byte string of the torrent files read.
MaxPiecesLen == 41

\* A Result: Ok(v) or Err(e).
Ok(v) == [ok |-> TRUE, v |-> v]
Err(e) == [ok |-> FALSE, err |-> e]

\* The length test left out: chunks_exact leaves the last bytes aside.
visit_bytes_any_length(v) ==
    Ok([i \in 1..(BytesLen(v) \div 20) |-> Slice(v, 20 * (i - 1), 20 * i)])

\* HashesVisitor::visit_bytes: an error unless the length is a multiple of
\* 20, else the chunks of 20 bytes in order.
visit_bytes(v) ==
    IF BytesLen(v) % 20 # 0
    THEN Err("Invalid length of the array being deserialized")
    ELSE Ok([i \in 1..(BytesLen(v) \div 20) |-> Slice(v, 20 * (i - 1), 20 * i)])

\* A bencoded value of a torrent file, parsed: an integer or a byte string.
IntValue(n) == [t |-> "int", v |-> n]
BytesValue(r) == [t |-> "bytes", v |-> r]

\* The bytes of a dictionary key.
KeyBytes(key) ==
    CASE key = "length" -> BytesOf(<<108, 101, 110, 103, 116, 104>>)
      [] key = "name" -> BytesOf(<<110, 97, 109, 101>>)
      [] key = "piece length" ->
            BytesOf(<<112, 105, 101, 99, 101, 32, 108, 101, 110, 103, 116, 104>>)
      [] key = "pieces" -> BytesOf(<<112, 105, 101, 99, 101, 115>>)
      [] key = "private" -> BytesOf(<<112, 114, 105, 118, 97, 116, 101>>)

\* The bencoding of a dictionary given as its key/value pairs in file order.
RECURSIVE EncodePairs(_)
EncodePairs(pairs) ==
    IF pairs = <<>> THEN <<>>
    ELSE Cat(BencodeBytes(KeyBytes(Head(pairs).key)),
         Cat(IF Head(pairs).val.t = "int"
             THEN BencodeInt(Head(pairs).val.v)
             ELSE BencodeBytes(Head(pairs).val.v),
             EncodePairs(Tail(pairs))))

EncodeDict(pairs) == Cat(BytesOf(<<100>>), Cat(EncodePairs(pairs), BytesOf(<<101>>)))

\* The value of a key of the dictionary, if it is there.
Lookup(pairs, key) ==
    LET at == {i \in DOMAIN pairs : pairs[i].key = key}
    IN IF at = {} THEN Err("missing field")
       ELSE Ok(pairs[CHOOSE i \in at : TRUE].val)

\* Deserialize for Info, as derived: the four fields by their keys, each of
\* its type, `pieces` through HashesVisitor; keys the struct does not name
\* are skipped.
DeserializeInfo(pairs) ==
    LET l == Lookup(pairs, "length")
        n == Lookup(pairs, "name")
        pl == Lookup(pairs, "piece length")
        ps == Lookup(pairs, "pieces")
    IN IF ~(l.ok /\ n.ok /\ pl.ok /\ ps.ok) THEN Err("missing field")
       ELSE IF ~(l.v.t = "int" /\ n.v.t = "bytes" /\ pl.v.t = "int" /\ ps.v.t = "bytes")
       THEN Err("invalid type")
       ELSE LET hashes == visit_bytes(ps.v.v)
            IN IF ~hashes.ok THEN hashes
               ELSE Ok([length |-> l.v.v, name |-> n.v.v,
                        piece_length |-> pl.v.v, pieces |-> hashes.v])

\* from_bytes::<Torrent>: the info dictionary of the file into Info.
from_bytes(f) ==
    LET info == DeserializeInfo(f.info)
    IN IF info.ok THEN Ok([info |-> info.v]) ELSE info

\* The torrent files read: canonical dictionaries (keys in sorted order)
\* of a file of `len` bytes cut in pieces of 20, with `n` bytes of hashes,
\* byte k of them being 1 + k mod 7; with or without the key `length`, with
\* or without a key Info does not name.
PiecesBytes(n) == IF n = 0 THEN <<>> ELSE BytesOf([k \in 1..n |-> 1 + (k % 7)])

TorrentFile(len, n, hasLength, hasPrivate) ==
    [info |->
        (IF hasLength THEN << [key |-> "length", val |-> IntValue(len)] >> ELSE <<>>)
        \o << [key |-> "name", val |-> BytesValue(BytesOf(<<97>>))],
              [key |-> "piece length", val |-> IntValue(20)],
              [key |-> "pieces", val |-> BytesValue(PiecesBytes(n))] >>
        \o (IF hasPrivate THEN << [key |-> "private", val |-> IntValue(1)] >> ELSE <<>>)]

TorrentFiles ==
    { TorrentFile(len, n, hasLength, hasPrivate) :
        len \in {20, 30}, n \in 0..MaxPiecesLen, hasLength \in BOOLEAN,
        hasPrivate \in BOOLEAN }

NoTorrent == [info |-> [length |-> 0, name |-> <<>>, piece_length |-> 0, pieces |-> <<>>]]

\* Command::Info: from_bytes(&file) with `?`, then the torrent is printed
\* with its info hash.
CommandInfo ==
    /\ Running /\ pc = "info"
    /\ LET t == from_bytes(torrent_file)
       IN IF t.ok
          THEN /\ torrent' = t.v
               /\ decoded' = info_hash_bytes(t.v.info)
               /\ result' = "ok" /\ UNCHANGED error
          ELSE /\ result' = "err" /\ error' = t.err
               /\ UNCHANGED <<torrent, decoded>>
    /\ UNCHANGED <<command, piece_arg, peers, value, torrent_file, hash_bytes, pc, piece, conn,
                   written, events, handshake_buf, length, pieceVars, fileVars, clocks>>

\* ----------------------------------------------------- the decode command
\* Bound: the longest string given to the decode command as it comes.
MaxValueLen == 5

\* Bound: the most key/value pairs of a dictionary given to it encoded.
MaxPairs == 2

\* A &str is the sequence of its character codes (ASCII only).
Chr ==
    [d |-> 100, l |-> 108, i |-> 105, e |-> 101, colon |-> 58, one |-> 49,
     a |-> 97, b |-> 98]

IsDigit(c) == c \in 48..57

\* str::split_once(c): the parts before and after the first c, if any.
split_once(str, c) ==
    LET at == {i \in DOMAIN str : str[i] = c}
    IN IF at = {} THEN Err("none")
       ELSE LET first == CHOOSE i \in at : \A j \in at : i <= j
            IN Ok([before |-> SubSeq(str, 1, first - 1),
                   after |-> SubSeq(str, first + 1, Len(str))])

RECURSIVE DigitsValue(_)
DigitsValue(ds) ==
    IF ds = <<>> THEN 0 ELSE 10 * DigitsValue(SubSeq(ds, 1, Len(ds) - 1)) + (ds[Len(ds)] - 48)

AllDigits(ds) == ds # <<>> /\ \A i \in DOMAIN ds : IsDigit(ds[i])

\* str::parse::<i64>: an optional sign, then one digit or more. (The
\* strings of the model are too short to overflow.)
parse_i64(ds) ==
    IF ds # <<>> /\ ds[1] \in {43, 45}
    THEN IF AllDigits(Tail(ds))
         THEN Ok(IF ds[1] = 45 THEN 0 - DigitsValue(Tail(ds)) ELSE DigitsValue(Tail(ds)))
         ELSE Err("invalid digit")
    ELSE IF AllDigits(ds) THEN Ok(DigitsValue(ds)) ELSE Err("invalid digit")

\* str::parse::<usize>: an optional plus sign, then one digit or more.
parse_usize(ds) ==
    IF ds # <<>> /\ ds[1] = 43
    THEN IF AllDigits(Tail(ds)) THEN Ok(DigitsValue(Tail(ds))) ELSE Err("invalid digit")
    ELSE IF AllDigits(ds) THEN Ok(DigitsValue(ds)) ELSE Err("invalid digit")

\* serde_json::Value: the variant, and the field of that variant filled.
Number(n) == [t |-> "Number", n |-> n, s |-> <<>>, a |-> <<>>, o |-> <<>>]
String(str) == [t |-> "String", n |-> 0, s |-> str, a |-> <<>>, o |-> <<>>]
Array(values) == [t |-> "Array", n |-> 0, s |-> <<>>, a |-> values, o |-> <<>>]
Object(map) == [t |-> "Object", n |-> 0, s |-> <<>>, a |-> <<>>, o |-> map]

\* The order of String: by bytes, a prefix first.
RECURSIVE StrLess(_, _)
StrLess(x, y) ==
    IF y = <<>> THEN FALSE
    ELSE IF x = <<>> THEN TRUE
    ELSE IF x[1] # y[1] THEN x[1] < y[1]
    ELSE StrLess(Tail(x), Tail(y))

\* serde_json::Map::insert on a map kept as the sequence of its entries in
\* iteration order. A key already there keeps its place and takes the new
\* value. A new key goes to its place in key order (the BTreeMap of the
\* default build) or to the end (the IndexMap of feature preserve_order).
insert(map, key, val, preserve_order) ==
    IF \E i \in DOMAIN map : map[i].k = key
    THEN [i \in DOMAIN map |-> IF map[i].k = key THEN [k |-> key, v |-> val] ELSE map[i]]
    ELSE IF preserve_order
    THEN Append(map, [k |-> key, v |-> val])
    ELSE LET below == Cardinality({i \in DOMAIN map : StrLess(map[i].k, key)})
         IN SubSeq(map, 1, below) \o <<[k |-> key, v |-> val]>>
            \o SubSeq(map, below + 1, Len(map))

\* What decode_bencoded_value ends with: the pair it returns, or a panic.
Returned(v, rest) == [panic |-> FALSE, v |-> v, rest |-> rest]
Panicked(msg) == [panic |-> TRUE, msg |-> msg]

RECURSIVE decode_bencoded_value(_, _)
RECURSIVE DecodeList(_, _, _)
RECURSIVE DecodeDict(_, _, _, _, _)

\* The loop of the 'l' arm: values until the remainder starts with 'e'.
DecodeList(remainder, values, preserve_order) ==
    IF remainder # <<>> /\ remainder[1] = Chr.e
    THEN Returned(Array(values), Tail(remainder))
    ELSE LET r == decode_bencoded_value(remainder, preserve_order)
         IN IF r.panic THEN r
            ELSE DecodeList(r.rest, Append(values, r.v), preserve_order)

\* The loop of the 'd' arm: keys and values in turn until the remainder
\* starts with 'e'; a key must be a Value::String.
DecodeDict(remainder, map, count, key, preserve_order) ==
    IF remainder # <<>> /\ remainder[1] = Chr.e
    THEN Returned(Object(map), Tail(remainder))
    ELSE LET r == decode_bencoded_value(remainder, preserve_order)
         IN IF r.panic THEN r
            ELSE IF count = 0
            THEN IF r.v.t = "String"
                 THEN DecodeDict(r.rest, map, 1, r.v.s, preserve_order)
                 ELSE Panicked("Dict keys must be strings")
            ELSE DecodeDict(r.rest, insert(map, key, r.v, preserve_order), 0, key,
                            preserve_order)

decode_bencoded_value(encoded_value, preserve_order) ==
    IF encoded_value = <<>> THEN Panicked("Unhandled encoded value")
    ELSE IF encoded_value[1] = Chr.i
    THEN LET parts == split_once(Tail(encoded_value), Chr.e)
         IN IF parts.ok /\ parse_i64(parts.v.before).ok
            THEN Returned(Number(parse_i64(parts.v.before).v), parts.v.after)
            ELSE Panicked("Unhandled encoded value")
    ELSE IF encoded_value[1] = Chr.l
    THEN DecodeList(Tail(encoded_value), <<>>, preserve_order)
    ELSE IF encoded_value[1] = Chr.d
    THEN DecodeDict(Tail(encoded_value), <<>>, 0, <<>>, preserve_order)
    ELSE IF IsDigit(encoded_value[1])
    THEN LET parts == split_once(encoded_value, Chr.colon)
         IN IF parts.ok /\ parse_usize(parts.v.before).ok
            THEN LET len == parse_usize(parts.v.before).v
                     rest == parts.v.after
                 IN IF len > Len(rest)
                    THEN Panicked("byte index out of range")
                    ELSE Returned(String(SubSeq(rest, 1, len)),
                                  SubSeq(rest, len + 1, Len(rest)))
            ELSE Panicked("Unhandled encoded value")
    ELSE Panicked("Unhandled encoded value")

\* Command::Decode: decode_bencoded_value(&value), whose value is printed.
\* The build is either one of serde_json: with feature preserve_order or
\* without.
CommandDecode ==
    /\ Running /\ pc = "decode"
    /\ \E preserve_order \in BOOLEAN :
          LET r == decode_bencoded_value(value, preserve_order)
          IN IF r.panic
             THEN Panic(r.msg) /\ UNCHANGED decoded
             ELSE decoded' = r /\ result' = "ok" /\ UNCHANGED <<pc, error>>
    /\ UNCHANGED <<inputs, piece, conn, written, events, handshake_buf, length,
                   pieceVars, fileVars, clocks>>

\* The strings given to the decode command: every string of up to
\* MaxValueLen characters of an alphabet that holds the delimiters, and the
\* encodings of dictionaries of up to MaxPairs pairs, with something after
\* them or not.
Alphabet == {Chr.d, Chr.l, Chr.i, Chr.e, Chr.one, Chr.colon, Chr.a}

ShortStrings == UNION { [1..n -> Alphabet] : n \in 0..MaxValueLen }

Keys == { <<Chr.a>>, <<Chr.b>>, <<Chr.b, Chr.a>> }

Leaves == { Number(1), String(<<Chr.a>>), Array(<<Number(1)>>) }

PairSeqs == UNION { [1..n -> [k : Keys, v : Leaves]] : n \in 0..MaxPairs }

Remainders == { <<>>, <<Chr.i>> }

\* The bencoding of a value: i<n>e, <len>:<bytes>, l..e, d<k><v>..e.
RECURSIVE Encode(_)
RECURSIVE EncodeAll(_)
RECURSIVE EncodeEntries(_)
Encode(val) ==
    CASE val.t = "Number" -> <<Chr.i>> \o Digits(val.n) \o <<Chr.e>>
      [] val.t = "String" -> Digits(Len(val.s)) \o <<Chr.colon>> \o val.s
      [] val.t = "Array" -> <<Chr.l>> \o EncodeAll(val.a) \o <<Chr.e>>
      [] val.t = "Object" -> <<Chr.d>> \o EncodeEntries(val.o) \o <<Chr.e>>
EncodeAll(values) ==
    IF values = <<>> THEN <<>> ELSE Encode(Head(values)) \o EncodeAll(Tail(values))
EncodeEntries(map) ==
    IF map = <<>> THEN <<>>
    ELSE Encode(String(Head(map).k)) \o Encode(Head(map).v) \o EncodeEntries(Tail(map))

EncodedDicts == { Encode(Object(ps)) \o rem : ps \in PairSeqs, rem \in Remainders }

\* The decode and info commands, run on those strings and torrent files.
DecodeInit ==
    /\ command \in {"decode", "info"}
    /\ torrent = NoTorrent
    /\ piece_arg = 0
    /\ peers = 0
    /\ value \in IF command = "decode" THEN ShortStrings \cup EncodedDicts ELSE {<<>>}
    /\ torrent_file \in IF command = "info" THEN TorrentFiles ELSE {<<>>}
    /\ hash_bytes = <<>>
    /\ pc = command
    /\ Started

DecodeNext == CommandDecode \/ CommandInfo

DecodeSpec == DecodeInit /\ [][DecodeNext]_vars

\* ------------------------------------------- claims on decode and info
\* The `pieces` byte string of the torrent file read.
RawPieces == Lookup(torrent_file.info, "pieces").v.v

InfoDone == command = "info" /\ ~Running

\* C16: the info command on a file whose `pieces` byte string is not a
\* multiple of 20 bytes long ends with an error value, never a panic and
\* never a Torrent; and the Torrent it builds otherwise has one hash for
\* every 20 bytes, byte j of hash i being byte 20*i + j of the string.
C16_PiecesInChunksOf20 ==
    InfoDone =>
        /\ result \in {"ok", "err"}
        /\ BytesLen(RawPieces) % 20 # 0 => result = "err"
        /\ result = "ok" =>
              /\ Len(torrent.info.pieces) * 20 = BytesLen(RawPieces)
              /\ \A i \in DOMAIN torrent.info.pieces : \A j \in 0..19 :
                    ByteAt(torrent.info.pieces[i], j) = ByteAt(RawPieces, 20 * (i - 1) + j)

\* C16 witness: a file with 39 bytes of `pieces` was refused by the visitor.
C16_Witness ==
    /\ InfoDone /\ BytesLen(RawPieces) = 39
    /\ result = "err" /\ error = "Invalid length of the array being deserialized"

\* C17: a Torrent the info command has built has as many hashes as its
\* length has pieces: ceil(length / piece_length).
C17_HashCountMatchesLength ==
    (InfoDone /\ result = "ok") =>
        Len(torrent.info.pieces) = CeilDiv(torrent.info.length, torrent.info.piece_length)

\* C18: re-encoding the Info a canonical torrent file was parsed to gives
\* back the bytes of the file's info dictionary, so that the info hash
\* printed is the SHA-1 of those bytes.
C18_InfoRoundTrip ==
    (InfoDone /\ result = "ok") =>
        /\ to_bytes(torrent.info) = EncodeDict(torrent_file.info)
        /\ decoded = Sha1(EncodeDict(torrent_file.info))

\* The encodings of dictionaries whose keys are all different.
DistinctKeys(ps) == \A i, j \in DOMAIN ps : i # j => ps[i].k # ps[j].k

EncodedDistinctDicts ==
    { Encode(Object(ps)) \o rem : ps \in {qs \in PairSeqs : DistinctKeys(qs)},
                                   rem \in Remainders }

\* C19: decoding d<k1><v1>..<kn><vn>e followed by a remainder returns a
\* dictionary and that remainder, and the dictionary holds the pairs in the
\* order of the input: encoded again, entry by entry in its own order, it
\* is the input up to the remainder.
C19_DictKeepsInputOrder ==
    (command = "decode" /\ ~Running /\ value \in EncodedDistinctDicts) =>
        /\ result = "ok"
        /\ decoded.v.t = "Object"
        /\ decoded.rest \in Remainders
        /\ Encode(decoded.v) \o decoded.rest = value

\* C20: the decode command never panics, whatever string it is given.
C20_DecodeNeverPanics ==
    command = "decode" => result # "panic"

\* ------------------------------------------------------------ the encodings
\* The functions that build what goes on the wire and in the tracker URL,
\* applied to arguments of their types: a [u8; 20] for the handshake and
\* the URL, three u32 for a request.
\* (u32 values are sampled up to 2^31 - 1.)
ByteSamples == {0, 19, 45, 97, 126, 255}

\* 20-byte arrays: two runs of sampled bytes, and one of 20 different bytes.
Hashes ==
    { Cat(Rep(a, k), Rep(b, 20 - k)) :
        a \in ByteSamples, b \in ByteSamples, k \in {1, 10, 19} }
    \cup { BytesOf([i \in 1..20 |-> 12 * i]) }

U32Samples == {0, 1, 255, 256, 16384, 65536, 16777216, 2147483647}

\* Handshake::new(hash_bytes).as_bytes(), as Stream::handshake writes it.
HandshakeAsBytes ==
    /\ Running /\ pc = "as_bytes"
    /\ written' = Append(written, as_bytes(hash_bytes))
    /\ result' = "ok"
    /\ UNCHANGED <<inputs, decoded, events, pc, error, piece, conn, handshake_buf, length,
                   pieceVars, fileVars, clocks>>

\* Stream::send_request_piece(piece, block_index, block_size)
SendRequestPiece ==
    /\ Running /\ pc = "send_request_piece"
    /\ written' = Append(written, RequestBuf(piece, block_index, block_size))
    /\ result' = "ok"
    /\ UNCHANGED <<inputs, decoded, events, pc, error, piece, conn, handshake_buf, length,
                   pieceVars, fileVars, clocks>>

\* hex::encode of one byte: its two lowercase hexadecimal digits.
HexChar(n) == IF n < 10 THEN 48 + n ELSE 87 + n
hex_encode(byte) == <<HexChar(byte \div 16), HexChar(byte % 16)>>

\* The characters URL encoders leave as they are: letters, digits, - . _ ~
Unreserved(byte) ==
    byte \in (48..57) \cup (65..90) \cup (97..122) \cup {45, 46, 95, 126}

\* The byte pushed as it is when a URL may hold it.
push_unless_unreserved(encoded, byte) ==
    IF Unreserved(byte) THEN encoded \o <<byte>>
    ELSE encoded \o <<37>> \o hex_encode(byte)

\* encoded.push('%'); encoded.push_str(&encode([byte]));
push_escaped(encoded, byte) == encoded \o <<37>> \o hex_encode(byte)

\* Info::info_hash_urlencoded, on the bytes info_hash_bytes() returned: the
\* loop over the first n of them.
RECURSIVE UrlencodeFirst(_, _)
UrlencodeFirst(hash, n) ==
    IF n = 0 THEN <<>>
    ELSE push_escaped(UrlencodeFirst(hash, n - 1), ByteAt(hash, n - 1))

info_hash_urlencoded(hash) == UrlencodeFirst(hash, BytesLen(hash))

InfoHashUrlencoded ==
    /\ Running /\ pc = "info_hash_urlencoded"
    /\ decoded' = info_hash_urlencoded(hash_bytes)
    /\ result' = "ok"
    /\ UNCHANGED <<inputs, events, pc, error, piece, conn, written, handshake_buf, length,
                   pieceVars, fileVars, clocks>>

\* Each function on each of its arguments, on a connection just opened.
EncodeInit ==
    /\ command = "download_piece"
    /\ torrent = NoTorrent
    /\ piece_arg = 0
    /\ peers = 0
    /\ value = <<>>
    /\ torrent_file = <<>>
    /\ pc \in {"as_bytes", "send_request_piece", "interested", "info_hash_urlencoded"}
    /\ hash_bytes \in IF pc \in {"as_bytes", "info_hash_urlencoded"} THEN Hashes ELSE {<<>>}
    /\ decoded = <<>>
    /\ result = "running"
    /\ error = "none"
    /\ piece \in IF pc = "send_request_piece" THEN U32Samples ELSE {0}
    /\ block_index \in IF pc = "send_request_piece" THEN U32Samples ELSE {0}
    /\ block_size \in IF pc = "send_request_piece" THEN U32Samples ELSE {0}
    /\ inbox = <<>>
    /\ frames = <<>>
    /\ silent = FALSE
    /\ peerSent = <<>>
    /\ written = <<>>
    /\ events = <<>>
    /\ handshake_buf = <<>>
    /\ length = 0
    /\ data = <<>>
    /\ remaining_bytes = 0
    /\ accepted = <<>>
    /\ file_data = <<>>
    /\ placed = <<>>
    /\ output = [written |-> FALSE, bytes |-> <<>>]
    /\ timer = 0
    /\ elapsed = 0

EncodeNext ==
    \/ HandshakeAsBytes
    \/ SendRequestPiece
    \/ Interested
    \/ InfoHashUrlencoded

EncodeSpec == EncodeInit /\ [][EncodeNext]_vars

\* -------------------------------------------------- claims on the encodings
\* C21: the bytes Handshake::new(h).as_bytes() returns for a 20-byte h are
\* 68: byte 0 is 19, bytes 1..20 are "BitTorrent protocol", bytes 20..28 are
\* zero, bytes 28..48 are h and bytes 48..68 are the 20-byte peer id.
C21_HandshakeEncoding ==
    (pc = "as_bytes" /\ result = "ok") =>
        LET bytes == written[1]
        IN /\ BytesLen(hash_bytes) = 20
           /\ BytesLen(bytes) = 68
           /\ ByteAt(bytes, 0) = 19
           /\ \A i \in 1..19 : ByteAt(bytes, i) = PROTOCOL[i]
           /\ \A i \in 20..27 : ByteAt(bytes, i) = 0
           /\ \A i \in 0..19 : ByteAt(bytes, 28 + i) = ByteAt(hash_bytes, i)
           /\ \A i \in 0..19 : ByteAt(bytes, 48 + i) = PEER_ID[i + 1]

\* C21 witness: the handshake of the hash of 20 different bytes was built.
C21_Witness ==
    /\ pc = "as_bytes" /\ result = "ok"
    /\ Len(hash_bytes) = 20
    /\ Len(written) = 1

\* Bytes at..at+4 of buf are x, most significant byte first.
BigEndianAt(buf, at, x) ==
    \A k \in 0..3 : ByteAt(buf, at + k) = (x \div (256 ^ (3 - k))) % 256

\* C22: the buffer send_request_piece writes is 17 bytes: 13 in 4 bytes
\* big-endian, the id 6, then piece index, block offset and block length,
\* each in 4 bytes big-endian, in that order; the buffer interested writes is
\* the 5 bytes 0, 0, 0, 1, 2.
C22_RequestEncoding ==
    /\ (pc = "send_request_piece" /\ result = "ok") =>
          LET buf == written[1]
          IN /\ BytesLen(buf) = 17
             /\ BigEndianAt(buf, 0, 13)
             /\ ByteAt(buf, 4) = 6
             /\ BigEndianAt(buf, 5, piece)
             /\ BigEndianAt(buf, 9, block_index)
             /\ BigEndianAt(buf, 13, block_size)
    /\ (pc = "unchoke_len" /\ written # <<>>) =>
          /\ BytesLen(written[1]) = 5
          /\ \A i \in 0..4 : ByteAt(written[1], i) = <<0, 0, 0, 1, 2>>[i + 1]

\* C22 witness: a request of three different values, one of them of four
\* bytes that are not zero, was built.
C22_Witness ==
    /\ pc = "send_request_piece" /\ result = "ok"
    /\ piece = 2147483647 /\ block_index = 16384 /\ block_size = 255

IsHexDigit(c) == c \in (48..57) \cup (65..70) \cup (97..102)

HexValue(c) == IF c \in 48..57 THEN c - 48 ELSE IF c \in 97..102 THEN c - 87 ELSE c - 55

\* C23: the string info_hash_urlencoded returns for a 20-byte hash has 60
\* characters: for every i, a `%` and the two hexadecimal digits of byte i,
\* whatever the byte; no byte stands unescaped.
C23_EveryByteEscaped ==
    (pc = "info_hash_urlencoded" /\ result = "ok") =>
        /\ BytesLen(hash_bytes) = 20
        /\ Len(decoded) = 60
        /\ \A i \in 0..19 :
              /\ decoded[3 * i + 1] = 37
              /\ IsHexDigit(decoded[3 * i + 2])
              /\ IsHexDigit(decoded[3 * i + 3])
              /\ 16 * HexValue(decoded[3 * i + 2]) + HexValue(decoded[3 * i + 3])
                     = ByteAt(hash_bytes, i)

\* C23 witness: a hash that starts with the byte of the letter a, which a
\* URL may hold as it is, was rendered with %61 first.
C23_Witness ==
    /\ pc = "info_hash_urlencoded" /\ result = "ok"
    /\ ByteAt(hash_bytes, 0) = 97
    /\ SubSeq(decoded, 1, 3) = <<37, 54, 49>>

====
